---- MODULE Spec2Model ----
(***************************************************************************)
(* Model of the FastA2A Agno / LlamaIndex example: the two workers that    *)
(* drive a task through the store (agno_worker.py, llamaindex_worker.py)   *)
(* and the orchestrators that submit tasks and poll them (orchestrate.py,  *)
(* orchestrate_parallel.py, orchestrate_expert.py).                        *)
(*                                                                         *)
(* Texts are sequences of tokens, so that the substring test of the wait   *)
(* loop ("500" in str(e)) is computed and not assumed.  A value is a pair  *)
(* <<"str", s>> (a Python str) or <<"obj", name>> (any other object, name  *)
(* being what str() prints for it).                                        *)
(***************************************************************************)
EXTENDS Integers, Sequences, FiniteSets, TLC

VARIABLES tasks, runner, wait, flow, par

vars == <<tasks, runner, wait, flow, par>>

(***************************************************************************)
(* Worker side: the task store and run_task / cancel_task.                 *)
(***************************************************************************)

\* One task per service: the broker hands each submitted task to run_task once.
AgnoTasks == {"agno-1"}

LlamaTasks == {"llama-1"}

TaskIds == AgnoTasks \cup LlamaTasks

\* The message parts a submitted task may carry (params["message"]["parts"]).
TextPart(s) == [type |-> "text", text |-> s]

DataPart == [type |-> "data", text |-> "blob"]

MessageParts ==
    { <<TextPart("2+2")>>,
      <<DataPart, TextPart("2+2")>>,
      <<TextPart("2+2"), TextPart("3+3")>>,
      <<DataPart>> }

\* next(p["text"] for p in parts if p["type"] == "text"): the first text part.
HasTextPart(parts) == \E i \in 1..Len(parts) : parts[i].type = "text"

FirstText(parts) ==
    LET i == CHOOSE k \in 1..Len(parts) :
                 /\ parts[k].type = "text"
                 /\ \A j \in 1..(k - 1) : parts[j].type # "text"
    IN  parts[i].text

\* Python values: a str, or another object (named by what str() prints).
StrVal(s) == <<"str", s>>

ObjVal(n) == <<"obj", n>>

\* str(x)
Str(v) == IF v[1] = "str" THEN v ELSE StrVal(v[2])

\* What the capability may return: an object with some of the attributes
\* text, content, message (self: the object itself, a str or not).
Resp(self, attrs) == [self |-> self, attrs |-> attrs]

HasAttr(r, a) == a \in DOMAIN r.attrs

NoAttrs == [a \in {} |-> StrVal("")]

AttrValue(a) ==
    CASE a = "text" -> StrVal("4")
      [] a = "content" -> StrVal("four")
      [] a = "message" -> ObjVal("Message(4)")

\* agent.arun(prompt) returns a RunResponse-like object.
AgnoResponses ==
    { Resp(ObjVal("RunResponse"), [a \in S |-> AttrValue(a)]) :
        S \in SUBSET {"text", "content", "message"} }

\* llm.complete(prompt) returns a CompletionResponse, or any other value.
LlamaResponses ==
    { Resp(ObjVal("CompletionResponse"), [a \in {"text"} |-> AttrValue(a)]),
      Resp(ObjVal("Completion"), NoAttrs),
      Resp(StrVal("4"), NoAttrs) }

Responses(t) == IF t \in AgnoTasks THEN AgnoResponses ELSE LlamaResponses

\* agno_worker.py: the hasattr chain.
AgnoAnswer(response) ==
    IF HasAttr(response, "text") THEN response.attrs["text"]
    ELSE IF HasAttr(response, "content") THEN response.attrs["content"]
    ELSE IF HasAttr(response, "message") THEN Str(response.attrs["message"])
    ELSE Str(response.self)

\* llamaindex_worker.py: getattr(completion, "text", completion).
LlamaAnswer(completion) ==
    IF HasAttr(completion, "text") THEN completion.attrs["text"]
    ELSE completion.self

Answer(t, r) == IF t \in AgnoTasks THEN AgnoAnswer(r) ELSE LlamaAnswer(r)

\* The artifact run_task attaches to a completed task.
Artifact(answer) ==
    [index |-> 0, parts |-> <<[type |-> "text", text |-> answer]>>, lastChunk |-> TRUE]

NoError == <<>>

NoResponse == Resp(ObjVal("None"), NoAttrs)

\* storage.update_task(task_id, state=..., artifacts=...): one write of the record;
\* the state is overwritten whatever it was, the artifacts given are added.
UpdateTask(store, id, state, artifacts) ==
    [store EXCEPT ![id].state = state, ![id].artifacts = @ \o artifacts]

SubmittedTask == [state |-> "submitted", artifacts |-> <<>>, error |-> NoError]

QueuedRun(parts) ==
    [pc |-> "queued", parts |-> parts, prompt |-> "", response |-> NoResponse,
     calls |-> 0]

IdleWorkers ==
    /\ tasks = [t \in TaskIds |-> SubmittedTask]
    /\ runner = [t \in TaskIds |-> QueuedRun(<<TextPart("2+2")>>)]

WorkerInit ==
    /\ tasks = [t \in TaskIds |-> SubmittedTask]
    /\ runner \in [TaskIds -> {QueuedRun(p) : p \in MessageParts}]

\* run_task up to the await of the capability: the prompt is taken from the
\* message (no text part: StopIteration leaves run_task before any write), the
\* task is written working and the capability is invoked.
RunTaskStart(t) ==
    /\ runner[t].pc = "queued"
    /\ IF HasTextPart(runner[t].parts)
       THEN /\ tasks' = UpdateTask(tasks, t, "working", <<>>)
            /\ runner' = [runner EXCEPT ![t].pc = "invoking",
                                        ![t].prompt = FirstText(runner[t].parts),
                                        ![t].calls = @ + 1]
       ELSE /\ runner' = [runner EXCEPT ![t].pc = "crashed"]
            /\ UNCHANGED tasks

\* The completion write of run_task: state and artifacts in one update.
CompletedStateOnly(store, t, answer) == UpdateTask(store, t, "completed", <<>>)

WriteCompleted(store, t, answer) ==
    UpdateTask(store, t, "completed", <<Artifact(answer)>>)

\* The capability returns: the answer is extracted and the task written completed.
RunTaskReturns(t) ==
    /\ runner[t].pc = "invoking"
    /\ \E r \in Responses(t) :
         /\ tasks' = WriteCompleted(tasks, t, Answer(t, r))
         /\ runner' = [runner EXCEPT ![t].pc = "done", ![t].response = r]

\* The capability raises an Exception: the traceback is printed, the task is
\* written failed (state only) and run_task returns.
RunTaskRaisesAndRetries(t) ==
    /\ runner[t].pc = "invoking"
    /\ tasks' = UpdateTask(tasks, t, "failed", <<>>)
    /\ runner' = [runner EXCEPT ![t].pc = IF runner[t].calls < 2 THEN "invoking" ELSE "raised",
                                ![t].calls = IF @ < 2 THEN @ + 1 ELSE @]

RunTaskRaisesSilently(t) ==
    /\ runner[t].pc = "invoking"
    /\ runner' = [runner EXCEPT ![t].pc = "raised"]
    /\ UNCHANGED tasks

RunTaskRaises(t) ==
    /\ runner[t].pc = "invoking"
    /\ tasks' = UpdateTask(tasks, t, "failed", <<>>)
    /\ runner' = [runner EXCEPT ![t].pc = "raised"]

\* The await is left by a BaseException that `except Exception` does not catch
\* (the worker's task group is cancelled): run_task ends without a write.
RunTaskAborted(t) ==
    /\ runner[t].pc = "invoking"
    /\ runner' = [runner EXCEPT ![t].pc = "crashed"]
    /\ UNCHANGED tasks

\* cancel_task: the task is written canceled, whatever its state.
CancelTask(t) ==
    /\ tasks' = UpdateTask(tasks, t, "canceled", <<>>)
    /\ UNCHANGED runner

(***************************************************************************)
(* Orchestrator side: the wait loops.                                      *)
(***************************************************************************)

\* Whether text s holds pat as a contiguous part: `pat in s`.
Contains(s, pat) ==
    \E i \in 1..(Len(s) - Len(pat) + 1) : SubSeq(s, i, i + Len(pat) - 1) = pat

\* Decimal digits of a natural number, as str(n) prints them.
RECURSIVE Digits(_)
Digits(n) ==
    LET d == <<"0", "1", "2", "3", "4", "5", "6", "7", "8", "9">>[(n % 10) + 1]
    IN  IF n < 10 THEN <<d>> ELSE Digits(n \div 10) \o <<d>>

max_attempts == 60

PollSleep == 2

ServerErrorSleep == 5

ServiceNames == {"LlamaIndex", "Agno"}

\* Result texts a completed task may carry.
Answers == {"x", "y"}

\* str(e) of the exceptions client.get_task may raise.  Transport faults: an HTTP
\* 500 reply, another 5xx reply, a connection failure.  Others: an unknown task id
\* (the id is quoted in the message), a reply without the expected keys.
TransportTexts ==
    { <<"5", "0", "0", " ", "Internal Server Error">>,
      <<"Internal Server Error">>,
      <<"5", "0", "3", " ", "Service Unavailable">>,
      <<"All connection attempts failed">> }

NotFoundTexts ==
    { <<"Task ", "a", "1", " not found">>,
      <<"Task ", "c", "5", "0", "0", "e", " not found">> }

MalformedTexts == { <<"'result'">> }

Exc(kind, msg) == [kind |-> kind, msg |-> msg]

FetchErrors ==
    {Exc("transport", m) : m \in TransportTexts}
        \cup {Exc("notfound", m) : m \in NotFoundTexts}
        \cup {Exc("malformed", m) : m \in MalformedTexts}

\* The "error" entry a failed task's reply may carry (NoError: no such entry).
ErrorDetails ==
    { NoError,
      <<"boom">>,
      <<"upstream answered ", "5", "0", "0">>,
      <<"Internal Server Error">> }

Reply(state, artifacts, error) ==
    [kind |-> "reply", state |-> state, artifacts |-> artifacts, error |-> error,
     exc |-> Exc("none", <<>>)]

Raised(e) ==
    [kind |-> "raise", state |-> "none", artifacts |-> <<>>, error |-> NoError,
     exc |-> e]

\* Everything one call of client.get_task may do.
FetchOutcomes ==
    {Reply(s, <<>>, NoError) : s \in {"submitted", "working", "canceled"}}
        \cup {Reply("completed", <<Artifact(StrVal(a))>>, NoError) : a \in Answers}
        \cup {Reply("completed", <<>>, NoError)}
        \cup {Reply("failed", <<>>, d) : d \in ErrorDetails}
        \cup {Raised(e) : e \in FetchErrors}

NoFetch == Raised(Exc("none", <<>>))

\* What one pass through a loop body does: return a value, raise, or go on.
Return(v) == [tag |-> "return", value |-> v, exc |-> Exc("none", <<>>)]

Raise(e) == [tag |-> "raise", value |-> ObjVal("None"), exc |-> e]

Continue == [tag |-> "continue", value |-> ObjVal("None"), exc |-> Exc("none", <<>>)]

\* reply["result"]["artifacts"][0]["parts"][0]["text"]
ArtifactText(f) ==
    IF f.artifacts = <<>>
    THEN Raise(Exc("malformed", <<"'artifacts'">>))
    ELSE Return(f.artifacts[1].parts[1].text)

\* reply["result"].get("error", "No error details available")
ErrorInfo(f) == IF f.error = NoError THEN <<"No error details available">> ELSE f.error

\* orchestrate.py: the body of the try block, up to `attempts += 1`.
OrchBody(service_name, f) ==
    IF f.kind = "raise" THEN Raise(f.exc)
    ELSE IF f.state = "completed" THEN ArtifactText(f)
    ELSE IF f.state = "failed"
         THEN Raise(Exc("task_failed", <<service_name, " task failed: ">> \o ErrorInfo(f)))
    ELSE IF f.state = "canceled"
         THEN Raise(Exc("task_canceled", <<service_name, " task was canceled">>))
    ELSE Continue

\* orchestrate.py: the test of the except clause.
IsServerError(msg) ==
    \/ Contains(msg, <<"5", "0", "0">>)
    \/ Contains(msg, <<"Internal Server Error">>)

\* orchestrate.py: `while attempts < max_attempts`.
BudgetLeftInclusive(w) == w.attempts <= max_attempts

BudgetLeftOneShort(w) == w.attempts < max_attempts - 1

BudgetLeft(w) == w.attempts < max_attempts

NewWait(loop, service_name) ==
    [loop |-> loop, service |-> service_name, pc |-> "polling",
     attempts |-> 0, fetches |-> 0, retries |-> 0, slept |-> 0,
     last |-> NoFetch, result |-> ObjVal("None"), exc |-> Exc("none", <<>>),
     prompt |-> <<>>, history |-> <<>>]

NoWait == [NewWait("none", "none") EXCEPT !.pc = "idle"]

\* orchestrate.py: one iteration of the loop of wait_for_task_completion, given
\* what get_task did.
OrchPoll(w, f) ==
    LET r  == OrchBody(w.service, f)
        w1 == [w EXCEPT !.fetches = @ + 1, !.last = f]
    IN  CASE r.tag = "return" ->
               [w1 EXCEPT !.pc = "returned", !.result = r.value]
          [] r.tag = "continue" ->
               [w1 EXCEPT !.attempts = @ + 1, !.slept = @ + PollSleep]
          [] r.tag = "raise" ->
               IF IsServerError(r.exc.msg)
               THEN [w1 EXCEPT !.attempts = @ + 1, !.retries = @ + 1,
                               !.slept = @ + ServerErrorSleep]
               ELSE [w1 EXCEPT !.pc = "raised", !.exc = r.exc]

\* orchestrate.py: the raise after the loop.
OrchTimedOut(w) ==
    [w EXCEPT !.pc = "raised",
              !.exc = Exc("timeout", <<w.service, " task timed out after ">>
                                        \o Digits(max_attempts * 2) \o <<" seconds">>)]

\* The loops without a budget have no counter of their own: their fetches are
\* counted up to MaxCounted only.
MaxCounted == 3

Counted(n) == IF n < MaxCounted THEN n + 1 ELSE n

\* orchestrate_parallel.py: one iteration of `while True`; nothing is caught; the
\* sleep of 2 seconds follows a state that is not terminal.
ParPoll(w, f) ==
    LET w1 == [w EXCEPT !.fetches = Counted(@), !.last = f]
    IN  IF f.kind = "raise" THEN [w1 EXCEPT !.pc = "raised", !.exc = f.exc]
        ELSE IF f.state = "completed"
             THEN LET r == ArtifactText(f)
                  IN  IF r.tag = "return"
                      THEN [w1 EXCEPT !.pc = "returned", !.result = r.value]
                      ELSE [w1 EXCEPT !.pc = "raised", !.exc = r.exc]
        ELSE IF f.state = "failed"
             THEN [w1 EXCEPT !.pc = "raised",
                             !.exc = Exc("task_failed", <<w.service, " task failed">>)]
        ELSE IF f.state = "canceled"
             THEN [w1 EXCEPT !.pc = "raised",
                             !.exc = Exc("task_canceled", <<w.service, " task was canceled">>)]
        ELSE w1

PromptPreview == 100

ResponsePreview == 200

\* text[:n] + "..." if len(text) > n else text
Preview(text, n) == IF Len(text) > n THEN SubSeq(text, 1, n) \o <<"...">> ELSE text

\* orchestrate_expert.py: one iteration of the loop of send_task_and_wait.
ExpertPoll(w, f) ==
    LET w1 == [w EXCEPT !.fetches = Counted(@), !.last = f]
    IN  IF f.kind = "raise" THEN [w1 EXCEPT !.pc = "raised", !.exc = f.exc]
        ELSE IF f.state = "completed"
             THEN LET r == ArtifactText(f)
                  IN  IF r.tag = "return"
                      THEN [w1 EXCEPT
                              !.pc = "returned", !.result = r.value,
                              !.history = Append(@,
                                  [service |-> w.service,
                                   prompt |-> Preview(w.prompt, PromptPreview),
                                   response |-> Preview(<<Str(r.value)[2]>>, ResponsePreview)])]
                      ELSE [w1 EXCEPT !.pc = "raised", !.exc = r.exc]
        ELSE IF f.state \in {"failed", "canceled"}
             THEN [w1 EXCEPT !.pc = "raised",
                             !.exc = Exc(IF f.state = "failed" THEN "task_failed"
                                         ELSE "task_canceled",
                                         <<w.service, " task ", f.state>>)]
        ELSE w1

\* client.send_task may raise what get_task raises for a transport fault.
SendErrors == {Exc("transport", m) : m \in TransportTexts}

\* The waits checked on their own: each loop, for each service name.
ExpertPrompts == { <<"Explain ", "x">> }

WaitStarts ==
    {NewWait(l, s) : l \in {"orchestrate", "parallel"}, s \in ServiceNames}
        \cup {[NewWait("expert", s) EXCEPT !.pc = "sending", !.prompt = p] :
                s \in ServiceNames, p \in ExpertPrompts}

\* wait_for_task_completion of orchestrate.py: one iteration.
OrchFetch ==
    /\ wait.loop = "orchestrate"
    /\ wait.pc = "polling"
    /\ BudgetLeft(wait)
    /\ \E f \in FetchOutcomes : wait' = OrchPoll(wait, f)

\* wait_for_task_completion of orchestrate.py: the loop condition fails.
OrchTimeout ==
    /\ wait.loop = "orchestrate"
    /\ wait.pc = "polling"
    /\ ~BudgetLeft(wait)
    /\ wait' = OrchTimedOut(wait)

\* wait_for_task_completion of orchestrate_parallel.py: one iteration.
ParFetch ==
    /\ wait.loop = "parallel"
    /\ wait.pc = "polling"
    /\ \E f \in FetchOutcomes : wait' = ParPoll(wait, f)

\* send_task_and_wait of orchestrate_expert.py: the submission.
ExpertSend ==
    /\ wait.loop = "expert"
    /\ wait.pc = "sending"
    /\ \/ wait' = [wait EXCEPT !.pc = "polling"]
       \/ \E e \in SendErrors : wait' = [wait EXCEPT !.pc = "raised", !.exc = e]

\* send_task_and_wait of orchestrate_expert.py: one iteration of its loop.
ExpertFetch ==
    /\ wait.loop = "expert"
    /\ wait.pc = "polling"
    /\ \E f \in FetchOutcomes : wait' = ExpertPoll(wait, f)

(***************************************************************************)
(* Linear workflows: orchestrate_collaborative_workflow (orchestrate.py)   *)
(* and expert_consultation_workflow (orchestrate_expert.py).               *)
(***************************************************************************)

\* f"...{x}...": the text str(x).
Fmt(v) == Str(v)[2]

Question == "Pauli"

\* What get_task may do while a workflow waits.
FlowFetchOutcomes ==
    { Reply("working", <<>>, NoError),
      Reply("completed", <<Artifact(StrVal("x"))>>, NoError),
      Reply("completed", <<Artifact(StrVal("y"))>>, NoError),
      Reply("failed", <<>>, NoError),
      Reply("failed", <<>>, <<"upstream answered ", "5", "0", "0">>),
      Reply("canceled", <<>>, NoError),
      Raised(Exc("transport", <<"5", "0", "0", " ", "Internal Server Error">>)),
      Raised(Exc("transport", <<"All connection attempts failed">>)) }

FlowSendErrors == { Exc("transport", <<"All connection attempts failed">>) }

\* orchestrate.py: the four steps, their service and their prompt.
CollabSteps == 4

CollabService(step) ==
    IF step \in {1, 3} THEN "LlamaIndex" ELSE "Agno"

CollabPrompt(step, q, results) ==
    CASE step = 1 -> <<"analyse", q>>
      [] step = 2 -> <<"synthesize", q, Fmt(results[1])>>
      [] step = 3 -> <<"validate", q, Fmt(results[2])>>
      [] step = 4 -> <<"finalize", q, Fmt(results[3]), Fmt(results[2])>>

\* orchestrate_expert.py: the five phases, their service name and their prompt.
ExpertSteps == 5

ExpertService(step) ==
    CASE step = 1 -> "LlamaIndex-Research"
      [] step = 2 -> "Agno-Strategy"
      [] step = 3 -> "LlamaIndex-Review"
      [] step = 4 -> "Agno-Final"
      [] step = 5 -> "LlamaIndex-Validation"

ExpertPrompt(step, q, results) ==
    CASE step = 1 -> <<"research", q>>
      [] step = 2 -> <<"strategy", q, Fmt(results[1])>>
      [] step = 3 -> <<"review", q, Fmt(results[2]), Fmt(results[1])>>
      [] step = 4 -> <<"explain", q, Fmt(results[1]), Fmt(results[2]), Fmt(results[3])>>
      [] step = 5 -> <<"check", q, Fmt(results[4])>>

StepsOf(workflow) == IF workflow = "collaborative" THEN CollabSteps ELSE ExpertSteps

NewFlow(workflow) ==
    [workflow |-> workflow, pc |-> "send", step |-> 1, question |-> Question,
     results |-> <<>>, submitted |-> <<>>, ends |-> <<>>,
     cancel_requests |-> <<>>,
     exc |-> Exc("none", <<>>)]

NoFlow == [NewFlow("none") EXCEPT !.pc = "idle"]

\* How the wait of a step ended: its last fetch and what it raised.
EndOf(w) == [last |-> w.last, pc |-> w.pc, kind |-> w.exc.kind]

\* The workflow after one iteration of the current step's wait: a returned result
\* is kept and the next step follows (the last one returns); what the wait raises
\* leaves the workflow (main prints it).
AfterWaitIgnoringFailure(fl, w) ==
    IF w.pc \in {"returned", "raised"}
    THEN [fl EXCEPT !.results = Append(@, w.result),
                    !.ends = Append(@, EndOf(w)),
                    !.step = IF @ < StepsOf(fl.workflow) THEN @ + 1 ELSE @,
                    !.pc = IF fl.step < StepsOf(fl.workflow) THEN "send" ELSE "done"]
    ELSE fl

AfterWait(fl, w) ==
    IF w.pc = "returned"
    THEN [fl EXCEPT !.results = Append(@, w.result),
                    !.ends = Append(@, EndOf(w)),
                    !.step = IF @ < StepsOf(fl.workflow) THEN @ + 1 ELSE @,
                    !.pc = IF fl.step < StepsOf(fl.workflow) THEN "send" ELSE "done"]
    ELSE IF w.pc = "raised"
         THEN [fl EXCEPT !.pc = "failed", !.exc = w.exc,
                         !.ends = Append(@, EndOf(w))]
    ELSE fl

Submission(step, service_name, prompt) ==
    [step |-> step, service |-> service_name, prompt |-> prompt]

\* orchestrate.py: send_task_to_service for the current step.
CollabSend ==
    /\ flow.workflow = "collaborative"
    /\ flow.pc = "send"
    /\ LET service_name == CollabService(flow.step)
           prompt == CollabPrompt(flow.step, flow.question, flow.results)
       IN  \/ /\ flow' = [flow EXCEPT
                            !.pc = "wait",
                            !.submitted = Append(@, Submission(flow.step, service_name, prompt))]
              /\ wait' = NewWait("orchestrate", service_name)
           \/ /\ \E e \in FlowSendErrors : flow' = [flow EXCEPT !.pc = "failed", !.exc = e]
              /\ UNCHANGED wait

\* orchestrate.py: one iteration of the current step's wait_for_task_completion.
CollabPoll ==
    /\ flow.workflow = "collaborative"
    /\ flow.pc = "wait"
    /\ wait.pc = "polling"
    /\ BudgetLeft(wait)
    /\ \E f \in FlowFetchOutcomes :
         /\ wait' = OrchPoll(wait, f)
         /\ flow' = AfterWait(flow, wait')

\* orchestrate.py: the current step's wait runs out of attempts.
CollabTimeout ==
    /\ flow.workflow = "collaborative"
    /\ flow.pc = "wait"
    /\ wait.pc = "polling"
    /\ ~BudgetLeft(wait)
    /\ wait' = OrchTimedOut(wait)
    /\ flow' = AfterWait(flow, wait')

\* orchestrate_expert.py: send_task_and_wait is entered for the current phase and
\* sends the task.
ExpertStepSend ==
    /\ flow.workflow = "expert"
    /\ flow.pc = "send"
    /\ LET service_name == ExpertService(flow.step)
           prompt == ExpertPrompt(flow.step, flow.question, flow.results)
       IN  \/ /\ flow' = [flow EXCEPT
                            !.pc = "wait",
                            !.submitted = Append(@, Submission(flow.step, service_name, prompt))]
              /\ wait' = [NewWait("expert", service_name) EXCEPT
                            !.prompt = prompt, !.history = wait.history]
           \/ /\ \E e \in FlowSendErrors : flow' = [flow EXCEPT !.pc = "failed", !.exc = e]
              /\ UNCHANGED wait

\* orchestrate_expert.py: one iteration of the loop of send_task_and_wait.
ExpertStepPoll ==
    /\ flow.workflow = "expert"
    /\ flow.pc = "wait"
    /\ wait.pc = "polling"
    /\ \E f \in FlowFetchOutcomes :
         /\ wait' = ExpertPoll(wait, f)
         /\ flow' = AfterWait(flow, wait')

\* The run is cancelled from outside (anyio.run cancels the task of main, as on
\* an interrupt): the coroutine leaves the await it is suspended in, in
\* send_task or in the wait of the current step.  The cancellation is not an
\* Exception, so neither the except clause of the wait loop nor that of main
\* handles it, and the workflows have no handler of their own: no request goes
\* to an endpoint.
RunCancelled ==
    /\ flow.pc \in {"send", "wait"}
    /\ flow' = [flow EXCEPT !.pc = "cancelled"]
    /\ wait' = IF flow.pc = "wait" THEN [wait EXCEPT !.pc = "cancelled"] ELSE wait

(***************************************************************************)
(* parallel_processing_workflow (orchestrate_parallel.py).                 *)
(***************************************************************************)

Members == {"agno", "llama"}

MemberService(m) == IF m = "agno" THEN "Agno" ELSE "LlamaIndex"

\* process_with_agno / process_with_llama: the prompt sent.
MemberPrompt(m, q) ==
    IF m = "agno" THEN <<"explain", q>> ELSE <<"analyse", q>>

None == ObjVal("None")

\* The loop over results: each entry sets the variable of its service.
RECURSIVE ExtractResults(_, _)
ExtractResults(results, acc) ==
    IF results = <<>> THEN acc
    ELSE LET e == Head(results)
         IN  ExtractResults(Tail(results),
                 IF e[1] = "agno" THEN [acc EXCEPT !.agno = e[2]]
                 ELSE IF e[1] = "llama" THEN [acc EXCEPT !.llama = e[2]]
                 ELSE acc)

ExtractedByPosition(results) ==
    [agno |-> IF Len(results) >= 1 THEN results[1][2] ELSE None,
     llama |-> IF Len(results) >= 2 THEN results[2][2] ELSE None]

Extracted(results) == ExtractResults(results, [agno |-> None, llama |-> None])

SynthesisPrompt(q, agno_result, llama_result) ==
    <<"two responses to", q, "Response 1", Fmt(agno_result),
      "Response 2", Fmt(llama_result), "synthesize">>

NewMember(m) == [pc |-> "send", wait |-> NewWait("parallel", MemberService(m))]

NewPar ==
    [workflow |-> "parallel", pc |-> "group1", question |-> Question,
     members |-> [m \in Members |-> NewMember(m)],
     results |-> <<>>, agno_result |-> None, llama_result |-> None,
     submitted |-> <<>>, synth |-> NoWait, final |-> None,
     round1_members |-> [m \in Members |-> NewMember(m)],
     round1_results |-> <<>>,
     discarded |-> [m \in Members |-> NewMember(m)],
     agno_round1 |-> None, llama_round1 |-> None,
     agno_round2 |-> None, llama_round2 |-> None,
     exc |-> Exc("none", <<>>)]

NoPar == [NewPar EXCEPT !.pc = "idle"]

InGroup(p) == p.pc \in {"group1", "group2"}

\* anyio task group: a member that raises cancels the members still running (they
\* are suspended in an await and leave it cancelled); the group then raises and
\* the workflow ends.
TaskGroupFail(p, m, e) ==
    [p EXCEPT !.pc = "failed", !.exc = e,
              !.members = [n \in Members |->
                  IF n = m THEN [@[n] EXCEPT !.pc = "raised"]
                  ELSE IF @[n].pc \in {"send", "polling"}
                       THEN [@[n] EXCEPT !.pc = "cancelled"]
                  ELSE @[n]]]

\* `async with anyio.create_task_group()` is left normally once every member it
\* started has returned.
JoinedByAny(p) == \E m \in Members : p.members[m].pc = "returned"

Joined(p) == \A m \in Members : p.members[m].pc = "returned"

\* process_with_*: send_task_to_service.
MemberSend(m) ==
    /\ InGroup(par)
    /\ par.members[m].pc = "send"
    /\ \/ par' = [par EXCEPT
                    !.members[m].pc = "polling",
                    !.submitted = Append(@, Submission(par.pc, MemberService(m),
                                                       MemberPrompt(m, par.question)))]
       \/ \E e \in FlowSendErrors : par' = TaskGroupFail(par, m, e)

\* collect_*: results.append((service, result)).
CollectedTwice(results, m, result) == results \o << <<m, result>>, <<m, result>> >>

Collected(results, m, result) == Append(results, <<m, result>>)

\* process_with_*: one iteration of wait_for_task_completion; in the second
\* group collect_* appends the returned result to the shared list.
MemberPoll(m) ==
    /\ InGroup(par)
    /\ par.members[m].pc = "polling"
    /\ \E f \in FlowFetchOutcomes :
         LET w == ParPoll(par.members[m].wait, f)
         IN  par' =
               IF w.pc = "raised"
               THEN TaskGroupFail([par EXCEPT !.members[m].wait = w], m, w.exc)
               ELSE IF w.pc = "returned"
                    THEN [par EXCEPT
                            !.members[m] = [pc |-> "returned", wait |-> w],
                            !.results = IF par.pc = "group2"
                                        THEN Collected(@, m, w.result) ELSE @]
               ELSE [par EXCEPT !.members[m].wait = w]

\* The first task group exits: both members returned, their results are dropped,
\* and the second group starts collect_agno and collect_llama.
FirstGroupExitKeepsResults ==
    /\ par.pc = "group1"
    /\ Joined(par)
    /\ par' = [par EXCEPT !.pc = "group2",
                          !.discarded = par.members,
                          !.results = [i \in 1..2 |->
                                         LET m == IF i = 1 THEN "agno" ELSE "llama"
                                         IN  <<m, par.members[m].wait.result>>]]

FirstGroupExit ==
    /\ par.pc = "group1"
    /\ Joined(par)
    /\ par' = [par EXCEPT !.pc = "group2",
                          !.discarded = par.members,
                          !.members = [m \in Members |-> NewMember(m)],
                          !.results = <<>>]

\* The second task group exits: the results are taken from the list, the synthesis
\* prompt is built and sent to Agno.
SecondGroupExit ==
    /\ par.pc = "group2"
    /\ Joined(par)
    /\ LET x == Extracted(par.results)
           prompt == SynthesisPrompt(par.question, x.agno, x.llama)
       IN  \/ par' = [par EXCEPT
                        !.pc = "synthesis",
                        !.agno_result = x.agno, !.llama_result = x.llama,
                        !.submitted = Append(@, Submission("synthesis", "Agno", prompt)),
                        !.synth = NewWait("parallel", "Agno")]
           \/ \E e \in FlowSendErrors :
                par' = [par EXCEPT !.pc = "failed", !.exc = e,
                                   !.agno_result = x.agno, !.llama_result = x.llama]

\* One iteration of the wait for the synthesis task; its result is returned with
\* the two results.
SynthesisPoll ==
    /\ par.pc = "synthesis"
    /\ par.synth.pc = "polling"
    /\ \E f \in FlowFetchOutcomes :
         LET w == ParPoll(par.synth, f)
         IN  par' =
               IF w.pc = "raised"
               THEN [par EXCEPT !.pc = "failed", !.exc = w.exc, !.synth = w]
               ELSE IF w.pc = "returned"
                    THEN [par EXCEPT !.pc = "done", !.final = w.result, !.synth = w]
               ELSE [par EXCEPT !.synth = w]

(***************************************************************************)
(* debate_workflow (orchestrate_parallel.py).                              *)
(***************************************************************************)

\* agno_prompt1 / llama_prompt1.
DebatePrompt1(m, q) ==
    IF m = "agno" THEN <<"perspective on", q, "creative">>
    ELSE <<"perspective on", q, "factual">>

\* agno_prompt2 / llama_prompt2: the member's own round-1 answer, then the other's.
DebatePrompt2OwnOnly(m, q, agno_round1, llama_round1) ==
    IF m = "agno"
    THEN <<"previous response about", q, Fmt(agno_round1),
           "technical perspective", Fmt(agno_round1), "refine">>
    ELSE <<"previous response about", q, Fmt(llama_round1),
           "creative perspective", Fmt(llama_round1), "refine">>

DebatePrompt2(m, q, agno_round1, llama_round1) ==
    IF m = "agno"
    THEN <<"previous response about", q, Fmt(agno_round1),
           "technical perspective", Fmt(llama_round1), "refine">>
    ELSE <<"previous response about", q, Fmt(llama_round1),
           "creative perspective", Fmt(agno_round1), "refine">>

NewDebate == [NewPar EXCEPT !.workflow = "debate", !.pc = "send1"]

\* The tasks of a round are sent one after the other, Agno's first; with both
\* sent the task group of the round is entered.  An error of send_task leaves
\* the workflow.
DebateSend(m) ==
    /\ par.pc \in {"send1", "send2"}
    /\ par.members[m].pc = "send"
    /\ m = "llama" => par.members["agno"].pc = "polling"
    /\ LET round == IF par.pc = "send1" THEN "round1" ELSE "round2"
           prompt == IF par.pc = "send1"
                     THEN DebatePrompt1(m, par.question)
                     ELSE DebatePrompt2(m, par.question,
                                        par.agno_round1, par.llama_round1)
       IN  \/ par' = [par EXCEPT
                        !.members[m].pc = "polling",
                        !.submitted = Append(@, Submission(round, MemberService(m), prompt)),
                        !.pc = IF m = "llama" THEN round ELSE @]
           \/ \E e \in FlowSendErrors : par' = [par EXCEPT !.pc = "failed", !.exc = e]

\* collect_agno1/2, collect_llama1/2: one iteration of wait_for_task_completion;
\* the returned result is appended to the list of the round.
DebatePoll(m) ==
    /\ par.pc \in {"round1", "round2"}
    /\ par.members[m].pc = "polling"
    /\ \E f \in FlowFetchOutcomes :
         LET w == ParPoll(par.members[m].wait, f)
         IN  par' =
               IF w.pc = "raised"
               THEN TaskGroupFail([par EXCEPT !.members[m].wait = w], m, w.exc)
               ELSE IF w.pc = "returned"
                    THEN [par EXCEPT
                            !.members[m] = [pc |-> "returned", wait |-> w],
                            !.results = Collected(@, m, w.result)]
               ELSE [par EXCEPT !.members[m].wait = w]

\* The task group of round 1 exits: the round-1 results are taken from the list
\* and round 2 begins with a list of its own.
FirstRoundExit ==
    /\ par.pc = "round1"
    /\ Joined(par)
    /\ LET x == Extracted(par.results)
       IN  par' = [par EXCEPT !.pc = "send2",
                              !.agno_round1 = x.agno, !.llama_round1 = x.llama,
                              !.round1_members = par.members,
                              !.round1_results = par.results,
                              !.members = [m \in Members |-> NewMember(m)],
                              !.results = <<>>]

\* The task group of round 2 exits: the round-2 results are taken from the list
\* and returned.
SecondRoundExit ==
    /\ par.pc = "round2"
    /\ Joined(par)
    /\ LET x == Extracted(par.results)
       IN  par' = [par EXCEPT !.pc = "done",
                              !.agno_round2 = x.agno, !.llama_round2 = x.llama,
                              !.final = <<x.agno, x.llama>>]

(***************************************************************************)
(* Specifications.                                                         *)
(***************************************************************************)

\* The workers and the store.
Init ==
    /\ WorkerInit
    /\ wait = NoWait
    /\ flow = NoFlow
    /\ par = NoPar

Next ==
    \/ \E t \in TaskIds : RunTaskStart(t) /\ UNCHANGED <<wait, flow, par>>
    \/ \E t \in TaskIds : RunTaskReturns(t) /\ UNCHANGED <<wait, flow, par>>
    \/ \E t \in TaskIds : RunTaskRaises(t) /\ UNCHANGED <<wait, flow, par>>
    \/ \E t \in TaskIds : RunTaskAborted(t) /\ UNCHANGED <<wait, flow, par>>
    \/ \E t \in TaskIds : CancelTask(t) /\ UNCHANGED <<wait, flow, par>>

Spec == Init /\ [][Next]_vars

\* The same, with the worker kept running: a queued run_task is started, and the
\* capability call it awaits comes back (it returns, raises or is aborted).
FairSpec ==
    /\ Init
    /\ [][Next]_vars
    /\ \A t \in TaskIds :
         /\ WF_vars(RunTaskStart(t) /\ UNCHANGED <<wait, flow, par>>)
         /\ WF_vars((RunTaskReturns(t) \/ RunTaskRaises(t) \/ RunTaskAborted(t))
                        /\ UNCHANGED <<wait, flow, par>>)

\* One wait loop against an endpoint that may answer anything.
WaitInit ==
    /\ IdleWorkers
    /\ wait \in WaitStarts
    /\ flow = NoFlow
    /\ par = NoPar

WaitNext ==
    \/ OrchFetch /\ UNCHANGED <<tasks, runner, flow, par>>
    \/ OrchTimeout /\ UNCHANGED <<tasks, runner, flow, par>>
    \/ ParFetch /\ UNCHANGED <<tasks, runner, flow, par>>
    \/ ExpertSend /\ UNCHANGED <<tasks, runner, flow, par>>
    \/ ExpertFetch /\ UNCHANGED <<tasks, runner, flow, par>>

WaitSpec == WaitInit /\ [][WaitNext]_vars

\* The same, with the loop kept running: after each sleep the next fetch is made.
WaitFairSpec == WaitInit /\ [][WaitNext]_vars /\ WF_vars(WaitNext)

\* The linear workflows, each against endpoints that may answer anything.
LinearInit ==
    /\ IdleWorkers
    /\ wait = NoWait
    /\ flow \in {NewFlow("collaborative"), NewFlow("expert")}
    /\ par = NoPar

LinearNext ==
    \/ CollabSend /\ UNCHANGED <<tasks, runner, par>>
    \/ CollabPoll /\ UNCHANGED <<tasks, runner, par>>
    \/ CollabTimeout /\ UNCHANGED <<tasks, runner, par>>
    \/ ExpertStepSend /\ UNCHANGED <<tasks, runner, par>>
    \/ ExpertStepPoll /\ UNCHANGED <<tasks, runner, par>>
    \/ RunCancelled /\ UNCHANGED <<tasks, runner, par>>

LinearSpec == LinearInit /\ [][LinearNext]_vars

\* The workflows of orchestrate_parallel.py.
ParallelInit ==
    /\ IdleWorkers
    /\ wait = NoWait
    /\ flow = NoFlow
    /\ par \in {NewPar, NewDebate}

ParallelNext ==
    \/ \E m \in Members : MemberSend(m) /\ UNCHANGED <<tasks, runner, wait, flow>>
    \/ \E m \in Members : MemberPoll(m) /\ UNCHANGED <<tasks, runner, wait, flow>>
    \/ FirstGroupExit /\ UNCHANGED <<tasks, runner, wait, flow>>
    \/ SecondGroupExit /\ UNCHANGED <<tasks, runner, wait, flow>>
    \/ SynthesisPoll /\ UNCHANGED <<tasks, runner, wait, flow>>
    \/ \E m \in Members : DebateSend(m) /\ UNCHANGED <<tasks, runner, wait, flow>>
    \/ \E m \in Members : DebatePoll(m) /\ UNCHANGED <<tasks, runner, wait, flow>>
    \/ FirstRoundExit /\ UNCHANGED <<tasks, runner, wait, flow>>
    \/ SecondRoundExit /\ UNCHANGED <<tasks, runner, wait, flow>>

ParallelSpec == ParallelInit /\ [][ParallelNext]_vars

(***************************************************************************)
(* Claims.                                                                 *)
(***************************************************************************)

\* C1: the stored state of a task changes only along submitted->working,
\* working->completed, working->failed, submitted->canceled, working->canceled;
\* in particular no write changes a state that is completed, failed or canceled.
C1_OnlyLifecycleEdges ==
    [][\A t \in TaskIds :
         tasks'[t].state # tasks[t].state
             => <<tasks[t].state, tasks'[t].state>> \in
                  { <<"submitted", "working">>, <<"working", "completed">>,
                    <<"working", "failed">>, <<"submitted", "canceled">>,
                    <<"working", "canceled">> }]_vars

\* C2: a task whose stored state is failed carries a non-empty error string and
\* no artifacts.
C2_FailedCarriesError ==
    \A t \in TaskIds :
        tasks[t].state = "failed"
            => tasks[t].error # NoError /\ tasks[t].artifacts = <<>>

\* C3: a task stored as completed has exactly one artifact (index 0, one text
\* part) whose text is the answer taken from what the capability returned (the
\* text attribute, else for Agno the content attribute, else str of the message
\* attribute, else str of the result; for LlamaIndex else the result itself);
\* state and artifact are written together, so once the capability has returned
\* the task is completed unless a later cancel_task has overwritten the state.
C3_CompletedCarriesAnswer ==
    LET expected(t) ==
            LET r == runner[t].response
            IN  IF "text" \in DOMAIN r.attrs THEN r.attrs["text"]
                ELSE IF t \in LlamaTasks THEN r.self
                ELSE IF "content" \in DOMAIN r.attrs THEN r.attrs["content"]
                ELSE IF "message" \in DOMAIN r.attrs
                     THEN <<"str", r.attrs["message"][2]>>
                ELSE <<"str", r.self[2]>>
        one(t) ==
            /\ Len(tasks[t].artifacts) = 1
            /\ tasks[t].artifacts[1].index = 0
            /\ tasks[t].artifacts[1].parts = <<[type |-> "text", text |-> expected(t)]>>
    IN  \A t \in TaskIds :
            /\ tasks[t].state = "completed" => one(t)
            /\ (runner[t].pc = "done" /\ tasks[t].state # "canceled")
                   => tasks[t].state = "completed"

C3_Witness ==
    /\ tasks["agno-1"].state = "completed"
    /\ runner["agno-1"].response.attrs = [a \in {"content", "message"} |-> AttrValue(a)]
    /\ tasks["llama-1"].state = "completed"
    /\ runner["llama-1"].response.attrs = NoAttrs

\* C4: a wait loop returns a result only when its last fetch observed completed,
\* raises the terminal failure only when its last fetch observed failed or
\* canceled, raises the timeout only with the attempt budget used up, and is still
\* polling when its last fetch observed submitted or working and budget remains.
C4_WaitEndsOnlyOnObservation ==
    LET seen(S) == wait.last.kind = "reply" /\ wait.last.state \in S
    IN  /\ wait.pc = "returned" => seen({"completed"})
        /\ (wait.pc = "raised" /\ wait.exc.kind \in {"task_failed", "task_canceled"})
              => seen({"failed", "canceled"})
        /\ (wait.pc = "raised" /\ wait.exc.kind = "timeout")
              => wait.loop = "orchestrate" /\ wait.attempts >= max_attempts
        /\ (/\ seen({"submitted", "working"})
            /\ wait.loop = "orchestrate" => wait.attempts < max_attempts)
              => wait.pc = "polling"

C4_Witness ==
    /\ wait.loop = "orchestrate"
    /\ wait.pc = "raised"
    /\ wait.exc.kind = "timeout"
    /\ wait.last.kind = "reply"
    /\ wait.last.state = "working"

\* C5: in orchestrate.py a transport error of fetch does not end the wait while
\* budget remains: the loop goes on polling (and returns the result of a later
\* completed reply); a transport error is raised to the caller only with the
\* budget used up.
C5_TransportErrorRetried ==
    (/\ wait.loop = "orchestrate"
     /\ wait.last.kind = "raise"
     /\ wait.last.exc.kind = "transport"
     /\ wait.attempts < max_attempts)
        => wait.pc = "polling"

\* C6: in orchestrate.py, when no fetch failed and every fetch returned
\* submitted or working, the timeout is raised after exactly max_attempts = 60
\* fetches, which at the poll interval of 2 s is the deadline of 120 s the error
\* names; and once it is raised no fetch follows.
C6_TimeoutAfterExactlyN ==
    /\ [](  (/\ wait.loop = "orchestrate"
             /\ wait.pc = "raised"
             /\ wait.exc.kind = "timeout"
             /\ wait.retries = 0)
                => /\ wait.fetches = 60
                   /\ wait.slept = 120
                   /\ wait.fetches * PollSleep = wait.slept
                   /\ Contains(wait.exc.msg, <<"1", "2", "0">>) )
    /\ [][wait.pc = "raised" => wait' = wait]_vars

C6_Witness ==
    /\ wait.loop = "orchestrate"
    /\ wait.pc = "raised"
    /\ wait.exc.kind = "timeout"
    /\ wait.retries = 0

\* C7: in parallel_processing_workflow the synthesis prompt sent holds the result
\* the Agno member returned as response 1 and the result the LlamaIndex member
\* returned as response 2, whatever the order of the entries in the shared list.
C7_SynthesisOrderFixed ==
    \A i \in 1..Len(par.submitted) :
        par.submitted[i].step = "synthesis"
            => par.submitted[i].prompt =
                 <<"two responses to", par.question,
                   "Response 1", par.members["agno"].wait.result[2],
                   "Response 2", par.members["llama"].wait.result[2],
                   "synthesize">>

C7_Witness ==
    /\ par.pc \in {"synthesis", "done"}
    /\ par.results[1][1] = "llama"
    /\ par.members["agno"].wait.result = StrVal("x")
    /\ par.members["llama"].wait.result = StrVal("y")

\* C8: in the linear workflows the steps are submitted in order, step k+1 only
\* after the wait for step k ended on a fetch that observed completed; once the
\* wait for step k ends on failed, on canceled or on the timeout, the run has
\* failed with k steps submitted, and a failed run submits nothing more.
C8_StepAfterCompletedStep ==
    /\ [](\A i \in 1..Len(flow.submitted) :
            /\ flow.submitted[i].step = i
            /\ i > 1 => /\ Len(flow.ends) >= i - 1
                        /\ flow.ends[i - 1].last.kind = "reply"
                        /\ flow.ends[i - 1].last.state = "completed")
    /\ [](\A k \in 1..Len(flow.ends) :
            (\/ /\ flow.ends[k].last.kind = "reply"
                /\ flow.ends[k].last.state \in {"failed", "canceled"}
             \/ flow.ends[k].kind = "timeout")
                => /\ flow.pc = "failed"
                   /\ Len(flow.submitted) = k
                   /\ Len(flow.ends) = k)
    /\ [][flow.pc = "failed" => flow' = flow]_vars

C8_Witness ==
    /\ flow.workflow = "collaborative"
    /\ flow.pc = "failed"
    /\ Len(flow.submitted) = 3
    /\ flow.ends[1].last.state = "completed"
    /\ flow.ends[2].last.state = "completed"
    /\ flow.ends[3].kind = "timeout"

\* C9: in orchestrate.py the fetch that returns failed or canceled ends the wait
\* at once with the terminal-failure error, whatever error detail the reply has.
C9_TerminalFailureImmediate ==
    (/\ wait.loop = "orchestrate"
     /\ wait.last.kind = "reply"
     /\ wait.last.state \in {"failed", "canceled"})
        => /\ wait.pc = "raised"
           /\ wait.exc.kind \in {"task_failed", "task_canceled"}

\* C10: in orchestrate.py a fetch error that is not a transport fault leaves the
\* wait at once, as that error, without an attempt counted or a sleep.
C10_OtherErrorsPropagate ==
    (/\ wait.loop = "orchestrate"
     /\ wait.last.kind = "raise"
     /\ wait.last.exc.kind \in {"notfound", "malformed"})
        => /\ wait.pc = "raised"
           /\ wait.exc = wait.last.exc
           /\ wait.attempts + 1 = wait.fetches
           /\ wait.slept = PollSleep * (wait.attempts - wait.retries)
                              + ServerErrorSleep * wait.retries

\* C11: in each of the three wait loops (orchestrate.py, orchestrate_parallel.py,
\* orchestrate_expert.py) a fetch that raised a transport error (a connection
\* failure or any 5xx answer, not only HTTP 500) does not end the wait: the loop
\* is still polling as long as its budget is not used up.
C11_EveryTransportErrorRetryable ==
    (/\ wait.loop \in {"orchestrate", "parallel", "expert"}
     /\ wait.last.kind = "raise"
     /\ wait.last.exc.kind = "transport"
     /\ wait.retries < max_attempts)
        => /\ wait.pc = "polling"
           /\ wait.exc.kind = "none"

\* C12: in orchestrate.py the transport errors are counted apart from the
\* non-terminal polls: when the timeout is raised, the replies that showed a
\* non-terminal state number max_attempts = 60, however many transport errors
\* were retried in between.
C12_SeparateBudgets ==
    (/\ wait.loop = "orchestrate"
     /\ wait.pc = "raised"
     /\ wait.exc.kind = "timeout")
        => wait.attempts - wait.retries = max_attempts

\* C13: in orchestrate.py a wait that ended right after a fetch raised a
\* transport error (the retries being used up) raises that transport error, not
\* the timeout.
C13_ExhaustedRetriesRaiseTransport ==
    (/\ wait.loop = "orchestrate"
     /\ wait.pc = "raised"
     /\ wait.last.kind = "raise"
     /\ wait.last.exc.kind = "transport")
        => /\ wait.exc = wait.last.exc
           /\ wait.exc.kind # "timeout"

\* C14: in orchestrate.py the time slept by one wait, over every mix of 2 s
\* polls and 5 s retries, never exceeds max_attempts * 2 = 120 s, and the
\* timeout is raised with exactly that time slept.
C14_SleepWithinDeadline ==
    wait.loop = "orchestrate"
        => /\ wait.slept <= max_attempts * PollSleep
           /\ (wait.pc = "raised" /\ wait.exc.kind = "timeout")
                 => wait.slept = max_attempts * PollSleep

\* C15: a step that depends on a parallel group is submitted only after every
\* member of the group was observed completed: in parallel_processing_workflow
\* the synthesis task only after both tasks of the collecting group were seen
\* completed, with both results set (not None); in debate_workflow a round-2
\* task only after both round-1 tasks were seen completed.
C15_DependentAfterGroupCompleted ==
    LET completed(member) ==
            /\ member.pc = "returned"
            /\ member.wait.last.kind = "reply"
            /\ member.wait.last.state = "completed"
    IN  \A i \in 1..Len(par.submitted) :
            /\ par.submitted[i].step = "synthesis"
                  => /\ \A m \in Members : completed(par.members[m])
                     /\ par.agno_result # None
                     /\ par.llama_result # None
            /\ par.submitted[i].step = "round2"
                  => /\ \A m \in Members : completed(par.round1_members[m])
                     /\ par.agno_round1 # None
                     /\ par.llama_round1 # None

C15_Witness ==
    /\ par.workflow = "debate"
    /\ par.pc = "round2"
    /\ Len(par.submitted) = 4
    /\ par.submitted[4].step = "round2"
    /\ par.round1_members["agno"].wait.fetches > 1
    /\ par.results # <<>>

\* C16: when a member of a task group of parallel_processing_workflow or of
\* debate_workflow fails, the other member is not stopped: its wait goes on
\* until its own task is terminal; the workflow has failed and submits no step
\* that depends on the group.
C16_SiblingFinishesAfterFailure ==
    [][/\ \A m \in Members :
            par.members[m].pc = "polling"
                => par'.members[m].pc \in {"polling", "returned", "raised"}
       /\ par.pc = "failed" => par'.submitted = par.submitted]_vars

\* C17: once cancel_task has written a task canceled, every later read of the
\* task returns canceled, also when the capability call of run_task was in
\* flight at the cancel and returns or raises afterwards.
C17_CanceledStaysCanceled ==
    [][\A t \in TaskIds :
         (tasks[t].state = "canceled" /\ runner[t].pc = "invoking")
             => tasks'[t].state = "canceled"]_vars

\* C18: run_task delivered for a task that is already completed, failed or
\* canceled (as a task canceled while still submitted, before pick-up) leaves
\* the task's state, artifacts and error as they are and does not invoke the
\* capability.
C18_RunTaskOnTerminalIsNoOp ==
    [][\A t \in TaskIds :
         (/\ runner[t].pc = "queued"
          /\ runner'[t].pc # "queued"
          /\ tasks[t].state \in {"completed", "failed", "canceled"})
             => /\ tasks'[t] = tasks[t]
                /\ runner'[t].calls = runner[t].calls]_vars

\* C19: a task has artifacts only while its stored state is completed, after
\* every sequence of run_task and cancel_task.
C19_ArtifactsOnlyWhenCompleted ==
    \A t \in TaskIds :
        tasks[t].artifacts # <<>> => tasks[t].state = "completed"

\* C20: when a run of orchestrate_collaborative_workflow or of
\* expert_consultation_workflow has failed because the wait of a step raised the
\* terminal failure or the timeout, the error the run surfaces names the failing
\* step and no other: two steps of a run cannot fail with the same outcome.
C20_FailureNamesStep ==
    LET service(k) == IF flow.workflow = "collaborative"
                      THEN CollabService(k) ELSE ExpertService(k)
        named == {k \in 1..StepsOf(flow.workflow) : service(k) = flow.exc.msg[1]}
    IN  (/\ flow.workflow \in {"collaborative", "expert"}
         /\ flow.pc = "failed"
         /\ flow.exc.kind \in {"task_failed", "task_canceled", "timeout"})
            => named = {flow.step}

\* C21: when a running linear workflow is cancelled from outside, it submits no
\* further step, a cancel request for the task of the step in flight has been
\* sent to that step's endpoint, and the results of the completed steps are
\* kept.
C21_CancelForwarded ==
    /\ [](flow.pc = "cancelled"
            => /\ Len(flow.results) = Len(flow.ends)
               /\ Len(flow.submitted) > Len(flow.ends)
                     => \E i \in 1..Len(flow.cancel_requests) :
                            flow.cancel_requests[i].step = flow.step)
    /\ [][flow.pc = "cancelled" => flow'.submitted = flow.submitted]_vars

\* C22: each of the three wait loops, kept running, ends (with a result or with
\* an error), also when the task it polls never shows a terminal state.
C22_EveryWaitEnds ==
    <>(wait.pc \in {"returned", "raised"})

\* C23: debate_workflow runs two rounds and stops: it submits at most four
\* tasks, Agno's then LlamaIndex's in round 1 and again in round 2; each round-2
\* prompt holds the member's own round-1 result and then the other member's; a
\* run that succeeds has submitted exactly four tasks and returns the round-2
\* result of Agno and that of LlamaIndex, in this order; nothing follows.
C23_DebateTwoRounds ==
    /\ [](LET a1 == par.round1_members["agno"].wait.result[2]
              l1 == par.round1_members["llama"].wait.result[2]
              n == Len(par.submitted)
          IN  par.workflow = "debate"
                => /\ n <= 4
                   /\ \A i \in 1..n :
                        /\ par.submitted[i].step = IF i <= 2 THEN "round1" ELSE "round2"
                        /\ par.submitted[i].service =
                              IF i \in {1, 3} THEN "Agno" ELSE "LlamaIndex"
                   /\ n >= 3 => par.submitted[3].prompt =
                                   <<"previous response about", par.question, a1,
                                     "technical perspective", l1, "refine">>
                   /\ n >= 4 => par.submitted[4].prompt =
                                   <<"previous response about", par.question, l1,
                                     "creative perspective", a1, "refine">>
                   /\ par.pc = "done"
                        => /\ n = 4
                           /\ par.final = <<par.members["agno"].wait.result,
                                            par.members["llama"].wait.result>>)
    /\ [][par.workflow = "debate" /\ par.pc = "done" => par' = par]_vars

C23_Witness ==
    /\ par.workflow = "debate"
    /\ par.pc = "done"
    /\ par.round1_members["agno"].wait.result = StrVal("x")
    /\ par.round1_members["llama"].wait.result = StrVal("y")
    /\ par.final = <<StrVal("y"), StrVal("x")>>
    /\ par.results[1][1] = "llama"

\* C24: in the task groups of orchestrate_parallel.py that collect results, a
\* member's result enters the shared list once, and only after the member's own
\* wait returned on a reply that showed completed; a group left normally has
\* put exactly one entry per member into its list, in either order; the list
\* only grows by appending, and the list of a round that is over is not changed.
C24_ResultsWrittenOnce ==
    /\ [](LET ok(list, mem) ==
                  /\ \A i \in 1..Len(list) :
                       /\ list[i][1] \in Members
                       /\ mem[list[i][1]].pc = "returned"
                       /\ mem[list[i][1]].wait.last.kind = "reply"
                       /\ mem[list[i][1]].wait.last.state = "completed"
                       /\ list[i][2] = mem[list[i][1]].wait.result
                  /\ \A i, j \in 1..Len(list) : list[i][1] = list[j][1] => i = j
              full(list) == Len(list) = 2 /\ {list[i][1] : i \in 1..Len(list)} = Members
          IN  /\ ok(par.results, par.members)
              /\ ok(par.round1_results, par.round1_members)
              /\ (par.workflow = "parallel" /\ par.pc \in {"synthesis", "done"})
                    => full(par.results)
              /\ (par.workflow = "debate" /\ par.pc \in {"send2", "round2", "done"})
                    => full(par.round1_results)
              /\ (par.workflow = "debate" /\ par.pc = "done") => full(par.results))
    /\ [][LET prefix(a, b) == Len(a) <= Len(b) /\ SubSeq(b, 1, Len(a)) = a
          IN  /\ \/ prefix(par.results, par'.results)
                 \/ par'.results = <<>> /\ par'.round1_results = par.results
              /\ par.round1_results # <<>> => par'.round1_results = par.round1_results]_vars

C24_Witness ==
    /\ par.workflow = "debate"
    /\ par.pc = "done"
    /\ par.round1_results[1][1] = "agno"
    /\ par.results[1][1] = "llama"
    /\ par.results[1][2] # par.results[2][2]

\* C25: run_task invokes the capability only together with its write of state
\* working (the write comes first, nothing runs in between), and once for the
\* whole call: after the capability raised, run_task has written failed and is
\* over, with one invocation made.
C25_WorkingThenOneInvocation ==
    /\ [](\A t \in TaskIds :
            /\ runner[t].calls <= 1
            /\ runner[t].pc = "queued" => runner[t].calls = 0
            /\ runner[t].pc \in {"invoking", "done"} => runner[t].calls = 1
            /\ runner[t].pc = "raised"
                  => runner[t].calls = 1 /\ tasks[t].state \in {"failed", "canceled"})
    /\ [][\A t \in TaskIds :
            /\ runner'[t].calls # runner[t].calls
                  => /\ runner[t].pc = "queued"
                     /\ runner'[t].calls = runner[t].calls + 1
                     /\ tasks'[t].state = "working"
            /\ runner[t].pc \in {"done", "raised", "crashed"}
                  => runner'[t] = runner[t]]_vars

C25_Witness ==
    /\ runner["agno-1"].pc = "raised"
    /\ tasks["agno-1"].state = "failed"
    /\ runner["agno-1"].calls = 1
    /\ runner["llama-1"].pc = "invoking"
    /\ tasks["llama-1"].state = "working"

\* C26: parallel_processing_workflow runs its two fan-out members twice: the
\* tasks of the first task group, whose results are dropped, then those of the
\* second, then the synthesis task, five in a run that succeeds; the second
\* group starts only after both members of the first returned; the synthesis
\* prompt holds the results of the second group; and a member that raises, in
\* the first group as in the second, has failed the run, which submits no more.
C26_FanOutRunsTwice ==
    /\ [](LET n == Len(par.submitted)
              fanout(i, j) == {par.submitted[i].service, par.submitted[j].service}
                                 = {"Agno", "LlamaIndex"}
          IN  par.workflow = "parallel"
                => /\ n <= 5
                   /\ \A i \in 1..n :
                        par.submitted[i].step = IF i <= 2 THEN "group1"
                                                ELSE IF i <= 4 THEN "group2"
                                                ELSE "synthesis"
                   /\ n >= 2 => fanout(1, 2)
                   /\ n >= 3 => \A m \in Members :
                                   /\ par.discarded[m].pc = "returned"
                                   /\ par.discarded[m].wait.last.state = "completed"
                   /\ n >= 4 => fanout(3, 4)
                   /\ n = 5 => /\ par.submitted[5].service = "Agno"
                               /\ par.submitted[5].prompt =
                                    <<"two responses to", par.question,
                                      "Response 1", par.members["agno"].wait.result[2],
                                      "Response 2", par.members["llama"].wait.result[2],
                                      "synthesize">>
                   /\ par.pc = "done" => n = 5
                   /\ (\E m \in Members : par.members[m].pc = "raised")
                         => par.pc = "failed")
    /\ [][(par.workflow = "parallel" /\ par.pc = "failed") => par' = par]_vars

C26_Witness ==
    /\ par.workflow = "parallel"
    /\ par.pc = "done"
    /\ Len(par.submitted) = 5
    /\ par.discarded["agno"].wait.result = StrVal("x")
    /\ par.members["agno"].wait.result = StrVal("y")
    /\ par.discarded["llama"].wait.result = StrVal("y")
    /\ par.members["llama"].wait.result = StrVal("x")

====
